---- MODULE Spec2Model ----
(***************************************************************************)
(* Data-synchronisation pattern of the storefront: the admin feedback      *)
(* moderation view (pages/admin/Feedback), the testimonial view            *)
(* (components/testimonials/TestimonialSection) and the profile page       *)
(* (pages/Profile: profile form, feedback form, orders) over the remote    *)
(* feedback and profiles tables.                                           *)
(* Every remote call is a suspension point: a handler is split             *)
(* into the step that runs up to its await and the step that runs from     *)
(* the response to the end of the handler (catch and finally included).    *)
(***************************************************************************)
EXTENDS Integers, Sequences, FiniteSets, Bags, TLC

\* ---------------------------------------------------------------- bounds
MaxId == 2          \* feedback rows 1..MaxId; a larger id is a newer row
MaxCalls == 3       \* remote calls the admin view issues after its mount: mutations, refreshes
MaxRemoteWrites == 1  \* writes of other clients to the table while the testimonial view lives
MaxRows == 4        \* rows of the table the fetch pipelines of both views are run on
MaxPending == 2     \* remote calls pending at the same time in a whole session
MaxApproved == 11   \* rows of the table the limited testimonial query is run on

Limit == 10         \* .limit(10) of the testimonial query

Ids == 1..MaxId
NULL == 0           \* the null record identifier (updating, feedbackToDelete)
NoUser == "none"    \* a null user_id

\* user_id of a row: rows 1, 5, .. belong to u1, rows 3, 7, .. to u2, rows 4, 8, ..
\* to u3, the rest to nobody
UserOf(id) ==
  IF id % 4 = 1 THEN "u1" ELSE IF id % 4 = 3 THEN "u2" ELSE IF id % 4 = 0 THEN "u3" ELSE NoUser

\* the ids of the profiles table: u3 has no profile row
Profiles == {"u1", "u2"}

\* profiles.full_name; u2 has an empty name
FullName(u) == IF u = "u1" THEN "Ann" ELSE ""

\* the columns of a profiles row, and of the profile form's state
Fields == {"full_name", "email", "phone", "address", "city", "state", "zip", "country", "role"}

\* the profiles table when the session starts: u1 is an administrator
StoredProfiles ==
  [u \in Profiles |->
     [f \in Fields |->
        IF f = "full_name" THEN FullName(u)
        ELSE IF f = "email" THEN u
        ELSE IF f = "phone" THEN "555"
        ELSE IF f = "country" THEN "Italy"
        ELSE IF f = "role" THEN (IF u = "u1" THEN "admin" ELSE "user")
        ELSE ""]]

\* the orders table: the ids of the orders of user u, newest first
StoredOrders(u) == IF u = "u1" THEN <<2, 1>> ELSE <<>>

VARIABLES
  remote,            \* the feedback table: id -> [present, approved]
  adView,            \* admin view lifecycle: "init" | "active"
  feedback,          \* admin: useState<FeedbackItem[]>
  loading,           \* admin: useState(true)
  updating,          \* admin: useState<string | null>
  deleteDialogOpen,  \* admin: useState(false)
  feedbackToDelete,  \* admin: useState<string | null>
  writes,            \* admin: updateFeedbackStatus / deleteFeedback calls awaiting their remote write
  fetches,           \* admin: fetchFeedback calls awaiting a query, each with its history:
                     \* the approve it was issued right after (probe) and whether another
                     \* fetch was in flight together with it (raced)
  tsView,            \* testimonial view lifecycle: "init" | "active" | "unmounted"
  testimonials,      \* testimonial: useState<Testimonial[]>([])
  tsLoading,         \* testimonial: useState(true)
  channels,          \* realtime channels of the testimonial view that are subscribed
  events,            \* change events queued for each channel's callback
  tsFetches,         \* testimonial: the bag of fetchApprovedFeedback calls awaiting a query
  user,              \* profile page: useAuth().user, NoUser when there is no session
  pfLoading,         \* profile page: useState(false), the flag both forms share
  feedbackData,      \* profile page: useState({ rating: 5, comment: '' })
  submittedFeedback, \* profile page: useState<any[]>([]), ids of the rows
  inserts,           \* profile page: handleFeedbackSubmit calls awaiting their insert
  saves,             \* profile page: handleSubmit calls awaiting their profile update,
                     \* each with the row id and the columns it sends
  profileData,       \* profile page: useState({ full_name: '', .. , role: 'user' })
  profileFetch,      \* profile page: fetchUserProfile of the mount effect, its position
  orders,            \* profile page: useState<any[]>([]), ids of the orders
  loadingOrders,     \* profile page: useState(false)
  orderFetches,      \* profile page: fetchOrders calls awaiting their query
  profiles,          \* the profiles table: user id -> row
  toasts,            \* notifications emitted by the last step
  last,              \* history: the step that produced the current state
  withdrawn,         \* history: ids of the records that were unapproved or deleted in the
                     \* table while the testimonial list showed them, not approved since
  calls,             \* history: remote calls issued so far, counted up to the session bound
  hist               \* history since the last installed fetch: ids deleted locally, ids
                     \* that had an update and a delete in flight at the same time

vars == <<remote, adView, feedback, loading, updating, deleteDialogOpen,
          feedbackToDelete, writes, fetches, tsView, testimonials, tsLoading,
          channels, events, tsFetches, user, pfLoading, feedbackData,
          submittedFeedback, inserts, saves, profileData, profileFetch, orders,
          loadingOrders, orderFetches, profiles, toasts, last, hist, withdrawn,
          calls>>

adminVars == <<adView, feedback, loading, updating, deleteDialogOpen,
               feedbackToDelete, writes, fetches, hist>>

\* the testimonial view's own state (the event queues are written by every remote write)
tsVars == <<tsView, testimonials, tsLoading, channels, tsFetches>>

\* the profile page's state that the forms do not write: the form of the profile,
\* the mount effects' fetches and the orders
acVars == <<profileData, profileFetch, orders, loadingOrders, orderFetches>>

\* the profile page's own state, and the profiles table only it writes
pfVars == <<user, pfLoading, feedbackData, submittedFeedback, inserts, saves, acVars,
            profiles>>

\* the name a profile lookup for user u resolves to, "" when it resolves to none
ProfileName(u) == IF u \in DOMAIN profiles THEN profiles[u]["full_name"] ELSE ""

\* useState initial value of profileData
DefaultProfileData ==
  [f \in Fields |-> IF f = "country" THEN "United States"
                    ELSE IF f = "role" THEN "user" ELSE ""]

\* the two useEffect hooks of TestimonialSection, each owning one channel
Effects == {1, 2}

\* ------------------------------------------------------------- helpers
RemoveAt(s, i) == SubSeq(s, 1, i - 1) \o SubSeq(s, i + 1, Len(s))

IdsOf(list) == {list[i].id : i \in 1..Len(list)}

Step(act, id, approved, ok) == [act |-> act, id |-> id, approved |-> approved, ok |-> ok]

Toast(title, description) == [title |-> title, description |-> description]

\* a row the table does not hold
NoRow == [present |-> FALSE, approved |-> FALSE]

\* rows of the table with id <= n, newest first
RECURSIVE RowsDesc(_, _)
RowsDesc(r, n) ==
  IF n = 0 THEN <<>>
  ELSE (IF r[n].present
          THEN <<[id |-> n, approved |-> r[n].approved, user_id |-> UserOf(n)]>>
          ELSE <<>>) \o RowsDesc(r, n - 1)

\* .from('feedback').select(...).order('created_at', { ascending: false })
SelectFeedback(r) == RowsDesc(r, Len(r))

\* mutation: isApproved compares the column with the string 'true'
FeedbackItemUnapproved(row, name) == [id |-> row.id, approved |-> FALSE, name |-> name]

\* processedFeedback.push({...}) for one row
FeedbackItem(row, name) == [id |-> row.id, approved |-> (row.approved = TRUE), name |-> name]

\* the for loop of fetchFeedback up to its next await: rows without user_id are
\* pushed with the fallback name; the loop suspends at the first row with a user_id
RECURSIVE ProcessRows(_, _)
ProcessRows(data, done) ==
  IF data = <<>> THEN [data |-> <<>>, done |-> done]
  ELSE IF Head(data).user_id # NoUser THEN [data |-> data, done |-> done]
  ELSE ProcessRows(Tail(data), Append(done, FeedbackItem(Head(data), "Anonymous User")))

\* prev.map(item => item.id === id ? { ...item, approved } : item)
MapApproved(prev, id, approved) ==
  [i \in 1..Len(prev) |-> IF prev[i].id = id THEN [prev[i] EXCEPT !.approved = approved] ELSE prev[i]]

\* prev.filter(item => item.id !== feedbackToDelete)
RECURSIVE FilterOut(_, _)
FilterOut(prev, id) ==
  IF prev = <<>> THEN <<>>
  ELSE (IF Head(prev).id # id THEN <<Head(prev)>> ELSE <<>>) \o FilterOut(Tail(prev), id)

\* one more remote call is issued
Call(max) == calls < max /\ calls' = calls + 1

\* a step that completes no operation
Other == Step("other", NULL, FALSE, TRUE)

\* mutation: the catch of updateFeedbackStatus leaves the list as it was
UpdateLocalStateRollback(prev, id, approved, ok) ==
  IF ok THEN MapApproved(prev, id, approved) ELSE prev

\* mutation: updateFeedbackStatus puts back a record the list no longer holds
UpdateLocalStateUpsert(prev, id, approved, ok) ==
  IF id \in IdsOf(prev) THEN MapApproved(prev, id, approved)
  ELSE Append(prev, [id |-> id, approved |-> approved, name |-> "Anonymous User"])

\* setFeedback of updateFeedbackStatus, after the update (ok) and in its catch (~ok)
UpdateLocalState(prev, id, approved, ok) == MapApproved(prev, id, approved)

\* mutation: the catch of deleteFeedback leaves the list as it was
DeleteLocalStateRollback(prev, id, ok) == IF ok THEN FilterOut(prev, id) ELSE prev

\* setFeedback of deleteFeedback, after the delete (ok) and in its catch (~ok)
DeleteLocalState(prev, id, ok) == FilterOut(prev, id)

\* mutation: the catch of updateFeedbackStatus stays silent
UpdateToastsSilent(approved, ok) ==
  IF ok
    THEN <<Toast(IF approved THEN "Feedback Approved" ELSE "Feedback Unapproved",
                 IF approved THEN "Feedback is now public" ELSE "Feedback has been hidden")>>
    ELSE <<>>

\* toast of updateFeedbackStatus, after the update (ok) and in its catch (~ok)
UpdateToasts(approved, ok) ==
  IF ok
    THEN <<Toast(IF approved THEN "Feedback Approved" ELSE "Feedback Unapproved",
                 IF approved THEN "Feedback is now public" ELSE "Feedback has been hidden")>>
    ELSE <<Toast("UI Updated",
                 "Status changed in UI but database update might require permission changes")>>

\* toast of deleteFeedback, after the delete (ok) and in its catch (~ok)
DeleteToasts(ok) ==
  IF ok
    THEN <<Toast("Feedback Deleted", "The feedback has been permanently removed")>>
    ELSE <<Toast("UI Updated",
                 "Item removed from UI but database deletion might require permission changes")>>

\* a mutation of the other kind on the same record is in flight
Overlaps(kind, id) == \E j \in 1..Len(writes) : writes[j].id = id /\ writes[j].kind # kind

\* no approve precedes the fetch
NoProbe == [id |-> NULL, ok |-> FALSE, now |-> FALSE]

NoHist == [deleted |-> {}, overlapped |-> {}]

\* ------------------------------------------------------------- initial state
\* both views before their mount, nothing emitted; the profile page right after
\* its mount effects have issued fetchOrders and fetchUserProfile for the user
ViewsInit ==
  /\ adView = "init"
  /\ feedback = <<>>
  /\ loading = TRUE
  /\ updating = NULL
  /\ deleteDialogOpen = FALSE
  /\ feedbackToDelete = NULL
  /\ writes = <<>>
  /\ fetches = <<>>
  /\ tsView = "init"
  /\ testimonials = <<>>
  /\ tsLoading = TRUE
  /\ channels = {}
  /\ events = [c \in Effects |-> 0]
  /\ tsFetches = EmptyBag
  /\ user = "u1"
  /\ pfLoading = FALSE
  /\ feedbackData = [rating |-> 5, comment |-> ""]
  /\ submittedFeedback = <<>>
  /\ inserts = <<>>
  /\ saves = <<>>
  /\ profileData = DefaultProfileData
  /\ profileFetch = [phase |-> "profile", user |-> "u1"]
  /\ orders = <<>>
  /\ loadingOrders = TRUE
  /\ orderFetches = <<"u1">>
  /\ profiles = StoredProfiles
  /\ toasts = <<>>
  /\ last = Other
  /\ hist = NoHist
  /\ withdrawn = {}
  /\ calls = 0

\* a table whose rows all exist, approved or not
Init ==
  /\ remote \in [Ids -> [present : {TRUE}, approved : BOOLEAN]]
  /\ ViewsInit

\* the rows a table can hold at one id: none, an unapproved row, an approved row
Rows == {NoRow} \cup [present : {TRUE}, approved : BOOLEAN]

\* ------------------------------------------------------------- remote store
\* A committed write is announced to every subscribed channel when the written
\* row passes the channels' filter 'approved=eq.true'.
Publish(match) ==
  /\ events' = [c \in Effects |-> IF match /\ c \in channels THEN events[c] + 1 ELSE events[c]]

\* history of a write to row id: the row leaves the approved rows while the
\* testimonial list shows it, or it is approved (again)
Withdraw(id) ==
  withdrawn' =
    IF remote'[id].present /\ remote'[id].approved THEN withdrawn \ {id}
    ELSE IF /\ tsView = "active" /\ id \in IdsOf(testimonials)
            /\ remote[id].present /\ remote[id].approved
      THEN withdrawn \cup {id}
    ELSE withdrawn

\* ------------------------------------------------------------- admin view
\* history of a fetch issued in the current state: the approve of a record that has
\* just completed, with its outcome and the remote flag it left, when no other
\* mutation of that record is in flight
Probe ==
  IF last.act = "updateDone" /\ last.approved /\ \A j \in 1..Len(writes) : writes[j].id # last.id
    THEN [id |-> last.id, ok |-> last.ok,
          now |-> remote[last.id].present /\ remote[last.id].approved]
    ELSE NoProbe

\* a mutation of record id is issued: the fetches in flight no longer follow an
\* approve of id undisturbed
Unprobe(fs, id) ==
  [j \in 1..Len(fs) |-> IF fs[j].probe.id = id THEN [fs[j] EXCEPT !.probe = NoProbe] ELSE fs[j]]

\* a call of fetchFeedback suspended at its primary query
NewFetch ==
  [phase |-> "primary", data |-> <<>>, done |-> <<>>, probe |-> Probe, raced |-> fetches # <<>>]

\* the fetches in flight, one more being issued
Issue(fs) == Append([j \in 1..Len(fs) |-> [fs[j] EXCEPT !.raced = TRUE]], NewFetch)

\* useEffect(() => { setLoading(true); fetchFeedback(); }, [])
AdminMount ==
  /\ adView = "init"
  /\ adView' = "active"
  /\ loading' = TRUE
  /\ fetches' = Issue(fetches)
  /\ toasts' = <<>>
  /\ last' = Other
  /\ UNCHANGED <<remote, feedback, updating, deleteDialogOpen, feedbackToDelete, writes, hist>>
  /\ UNCHANGED <<tsVars, pfVars, events, withdrawn>>
  /\ UNCHANGED calls

\* the page's controls can be operated: the view is mounted and no modal
\* AlertDialog (open={deleteDialogOpen}) covers it
PageOperable == adView = "active" /\ ~deleteDialogOpen

\* Refresh button: onClick={fetchFeedback} disabled={loading || updating !== null}
fetchFeedback ==
  /\ PageOperable
  /\ ~loading
  /\ updating = NULL
  /\ Call(MaxCalls)
  /\ fetches' = Issue(fetches)
  /\ toasts' = <<>>
  /\ last' = Other
  /\ UNCHANGED <<remote, adView, feedback, loading, updating, deleteDialogOpen,
                 feedbackToDelete, writes, hist>>
  /\ UNCHANGED <<tsVars, pfVars, events, withdrawn>>

\* setFeedback(processedFeedback); setLoading(false); the step is recorded with the
\* record whose approve the run followed and the outcome of that approve
FetchInstall(i, done) ==
  /\ feedback' = done
  /\ loading' = FALSE
  /\ fetches' = RemoveAt(fetches, i)
  /\ toasts' = <<>>
  /\ last' = Step("fetchDone", fetches[i].probe.id, fetches[i].probe.ok, TRUE)
  /\ hist' = NoHist

\* after an await of fetchFeedback: run the loop to its next await or to the end
FetchContinue(i, data, done) ==
  LET p == ProcessRows(data, done) IN
    IF p.data = <<>>
      THEN FetchInstall(i, p.done)
      ELSE /\ fetches' = [fetches EXCEPT ![i] = [@ EXCEPT !.phase = "lookup", !.data = p.data,
                                                           !.done = p.done]]
           /\ toasts' = <<>>
           /\ last' = Other
           /\ UNCHANGED <<feedback, loading, hist>>

\* the primary query of fetchFeedback resolves
fetchFeedbackPrimary(i, ok) ==
  /\ i \in 1..Len(fetches)
  /\ fetches[i].phase = "primary"
  /\ IF ok
       THEN FetchContinue(i, SelectFeedback(remote), <<>>)
       ELSE \* catch: toast, setLoading(false)
            /\ toasts' = <<Toast("Error", "Failed to load feedback data")>>
            /\ loading' = FALSE
            /\ fetches' = RemoveAt(fetches, i)
            /\ last' = Step("fetchDone", NULL, FALSE, FALSE)
            /\ UNCHANGED <<feedback, hist>>
  /\ UNCHANGED <<remote, adView, updating, deleteDialogOpen, feedbackToDelete, writes>>
  /\ UNCHANGED <<tsVars, pfVars, events, withdrawn>>
  /\ UNCHANGED calls

\* the profile lookup of the row at the head of data resolves; an error result
\* and a thrown error both leave the fallback name
fetchFeedbackLookup(i, ok) ==
  /\ i \in 1..Len(fetches)
  /\ fetches[i].phase = "lookup"
  /\ LET row == Head(fetches[i].data)
         full_name == ProfileName(row.user_id)
         name == IF ok /\ full_name # "" THEN full_name ELSE "Anonymous User"
     IN FetchContinue(i, Tail(fetches[i].data), Append(fetches[i].done, FeedbackItem(row, name)))
  /\ UNCHANGED <<remote, adView, updating, deleteDialogOpen, feedbackToDelete, writes>>
  /\ UNCHANGED <<tsVars, pfVars, events, withdrawn>>
  /\ UNCHANGED calls

\* approve toggle of a row: disabled={updating === item.id}
\* onClick={() => updateFeedbackStatus(item.id, !item.approved)}
updateFeedbackStatus(k) ==
  /\ PageOperable
  /\ ~loading
  /\ k \in 1..Len(feedback)
  /\ updating # feedback[k].id
  /\ Call(MaxCalls)
  /\ updating' = feedback[k].id
  /\ writes' = Append(writes, [kind |-> "update", id |-> feedback[k].id, approved |-> ~feedback[k].approved])
  /\ toasts' = <<>>
  /\ last' = Other
  /\ hist' = IF Overlaps("update", feedback[k].id)
               THEN [hist EXCEPT !.overlapped = @ \cup {feedback[k].id}] ELSE hist
  /\ fetches' = Unprobe(fetches, feedback[k].id)
  /\ UNCHANGED <<remote, adView, feedback, loading, deleteDialogOpen, feedbackToDelete>>
  /\ UNCHANGED <<tsVars, pfVars, events, withdrawn>>

\* the remote update of updateFeedbackStatus resolves
updateFeedbackStatusResolve(i, ok) ==
  /\ i \in 1..Len(writes)
  /\ writes[i].kind = "update"
  /\ LET id == writes[i].id
         approved == writes[i].approved
     IN /\ remote' = IF ok /\ remote[id].present
                     THEN [remote EXCEPT ![id].approved = approved] ELSE remote
        /\ Publish(ok /\ remote[id].present /\ approved)
        /\ Withdraw(id)
        /\ feedback' = UpdateLocalState(feedback, id, approved, ok)
        /\ toasts' = UpdateToasts(approved, ok)
        /\ last' = Step("updateDone", id, approved, ok)
        /\ UNCHANGED hist
  /\ updating' = NULL
  /\ writes' = RemoveAt(writes, i)
  /\ UNCHANGED <<adView, loading, deleteDialogOpen, feedbackToDelete, fetches>>
  /\ UNCHANGED <<tsVars, pfVars>>
  /\ UNCHANGED calls

\* delete button of a row: disabled={updating !== null}
handleDeleteClick(k) ==
  /\ PageOperable
  /\ ~loading
  /\ k \in 1..Len(feedback)
  /\ updating = NULL
  /\ feedbackToDelete' = feedback[k].id
  /\ deleteDialogOpen' = TRUE
  /\ toasts' = <<>>
  /\ last' = Other
  /\ UNCHANGED <<remote, adView, feedback, loading, updating, writes, fetches, hist>>
  /\ UNCHANGED <<tsVars, pfVars, events, withdrawn>>
  /\ UNCHANGED calls

\* <AlertDialog open={deleteDialogOpen} onOpenChange={setDeleteDialogOpen}>: the
\* dialog closes itself (Cancel, Escape, after the action was clicked)
onOpenChange ==
  /\ adView = "active"
  /\ deleteDialogOpen
  /\ deleteDialogOpen' = FALSE
  /\ toasts' = <<>>
  /\ last' = Other
  /\ UNCHANGED <<remote, adView, feedback, loading, updating, feedbackToDelete, writes, fetches, hist>>
  /\ UNCHANGED <<tsVars, pfVars, events, withdrawn>>
  /\ UNCHANGED calls

\* AlertDialogAction: onClick={deleteFeedback} disabled={updating !== null}
deleteFeedback ==
  /\ adView = "active"
  /\ deleteDialogOpen
  /\ updating = NULL
  /\ feedbackToDelete # NULL
  /\ Call(MaxCalls)
  /\ updating' = feedbackToDelete
  /\ writes' = Append(writes, [kind |-> "delete", id |-> feedbackToDelete, approved |-> FALSE])
  /\ toasts' = <<>>
  /\ last' = Other
  /\ hist' = IF Overlaps("delete", feedbackToDelete)
               THEN [hist EXCEPT !.overlapped = @ \cup {feedbackToDelete}] ELSE hist
  /\ fetches' = Unprobe(fetches, feedbackToDelete)
  /\ UNCHANGED <<remote, adView, feedback, loading, deleteDialogOpen, feedbackToDelete>>
  /\ UNCHANGED <<tsVars, pfVars, events, withdrawn>>

\* the remote delete of deleteFeedback resolves
deleteFeedbackResolve(i, ok) ==
  /\ i \in 1..Len(writes)
  /\ writes[i].kind = "delete"
  /\ LET id == writes[i].id
     IN /\ remote' = IF ok THEN [remote EXCEPT ![id] = NoRow] ELSE remote
        /\ \E m \in BOOLEAN : Publish(m /\ ok /\ remote[id].present /\ remote[id].approved)
        /\ Withdraw(id)
        /\ feedback' = DeleteLocalState(feedback, id, ok)
        /\ toasts' = DeleteToasts(ok)
        /\ last' = Step("deleteDone", id, FALSE, ok)
        /\ hist' = [hist EXCEPT !.deleted = @ \cup {id}]
  /\ updating' = NULL
  /\ feedbackToDelete' = NULL
  /\ deleteDialogOpen' = FALSE
  /\ writes' = RemoveAt(writes, i)
  /\ UNCHANGED <<adView, loading, fetches>>
  /\ UNCHANGED <<tsVars, pfVars>>
  /\ UNCHANGED calls

NextAdmin ==
  \/ AdminMount
  \/ fetchFeedback
  \/ \E i \in 1..(MaxCalls + 1), ok \in BOOLEAN : fetchFeedbackPrimary(i, ok)
  \/ \E i \in 1..(MaxCalls + 1), ok \in BOOLEAN : fetchFeedbackLookup(i, ok)
  \/ \E k \in 1..MaxId : updateFeedbackStatus(k)
  \/ \E i \in 1..MaxCalls, ok \in BOOLEAN : updateFeedbackStatusResolve(i, ok)
  \/ \E k \in 1..MaxId : handleDeleteClick(k)
  \/ onOpenChange
  \/ deleteFeedback
  \/ \E i \in 1..MaxCalls, ok \in BOOLEAN : deleteFeedbackResolve(i, ok)

SpecAdmin == Init /\ [][NextAdmin]_vars

\* ------------------------------------------------------------- testimonial view
\* first n elements of a sequence
Take(s, n) == SubSeq(s, 1, IF Len(s) < n THEN Len(s) ELSE n)

\* the approved rows of the table with id <= n, newest first
RECURSIVE ApprovedDesc(_, _)
ApprovedDesc(r, n) ==
  IF n = 0 THEN <<>>
  ELSE (IF r[n].present /\ r[n].approved
          THEN <<[id |-> n, user_id |-> UserOf(n)]>>
          ELSE <<>>) \o ApprovedDesc(r, n - 1)

\* mutation: the query has no .limit(10)
SelectApprovedUnlimited(r) == ApprovedDesc(r, Len(r))

\* .from('feedback').select(...).eq('approved', true)
\*   .order('created_at', { ascending: false }).limit(10)
SelectApproved(r) == Take(ApprovedDesc(r, Len(r)), Limit)

\* data.map(item => ({ id: item.id, author: 'Anonymous Customer', ... }))
MapTestimonials(data) ==
  [i \in 1..Len(data) |-> [id |-> data[i].id, author |-> "Anonymous Customer"]]

\* data.filter(item => item.user_id != null).map(item => item.user_id)
UserIds(data) == {data[i].user_id : i \in {j \in 1..Len(data) : data[j].user_id # NoUser}}

\* mutation: the author is the profile's full_name even when it is empty
WithAuthorsNoFallback(data) ==
  [i \in 1..Len(data) |->
     [id |-> data[i].id,
      author |-> IF data[i].user_id \in Profiles
                   THEN FullName(data[i].user_id) ELSE "Anonymous Customer"]]

\* mappedTestimonials.map(...) over the profileMap built from the lookup's rows:
\* author: profileMap[user_id].full_name || 'Anonymous Customer'
WithAuthors(data) ==
  [i \in 1..Len(data) |->
     [id |-> data[i].id,
      author |-> IF data[i].user_id # NoUser /\ ProfileName(data[i].user_id) # ""
                   THEN ProfileName(data[i].user_id) ELSE "Anonymous Customer"]]

\* a call of fetchApprovedFeedback suspended at its primary query; trigger records the caller
NewTsFetch(trigger) == [phase |-> "primary", data |-> <<>>, trigger |-> trigger]

\* the channel the first useEffect subscribes
Effect1Channels == {1}

\* the channel the second useEffect subscribes
Effect2Channels == {2}

\* mutation: the first useEffect returns no cleanup
Cleanup1Keep(chs) == chs

\* return () => { supabase.removeChannel(channel); } of the first useEffect
Cleanup1(chs) == chs \ {1}

\* return () => { supabase.removeChannel(channel); } of the second useEffect
Cleanup2(chs) == chs \ {2}

\* a state setter of the testimonial view: React drops it once the view is unmounted
SetTs(var, value) == IF tsView = "active" THEN value ELSE var

\* the view activates: both useEffect hooks run, the second one also issues the
\* initial fetchApprovedFeedback (setLoading(true) up to its first await)
TestimonialMount ==
  /\ tsView = "init"
  /\ tsView' = "active"
  /\ channels' = Effect1Channels \cup Effect2Channels
  /\ tsLoading' = TRUE
  /\ tsFetches' = tsFetches (+) SetToBag({NewTsFetch("mount")})
  /\ toasts' = <<>>
  /\ last' = Other
  /\ UNCHANGED <<remote, adminVars, pfVars, testimonials, events, withdrawn>>
  /\ UNCHANGED calls

\* the view deactivates: both cleanups run; a removed channel delivers nothing more
TestimonialUnmount ==
  /\ tsView = "active"
  /\ tsView' = "unmounted"
  /\ channels' = Cleanup2(Cleanup1(channels))
  /\ events' = [c \in Effects |-> IF c \in channels' THEN events[c] ELSE 0]
  /\ UNCHANGED withdrawn
  /\ toasts' = <<>>
  /\ last' = Other
  /\ UNCHANGED <<remote, adminVars, pfVars, testimonials, tsLoading, tsFetches>>
  /\ UNCHANGED calls

\* another client writes the feedback table: a moderator approves or unapproves a
\* row or deletes it, a customer inserts a row (approved: false)
RemoteWrite(id, kind) ==
  /\ kind \in {"approve", "unapprove", "delete", "insert"}
  /\ IF kind = "insert" THEN ~remote[id].present ELSE remote[id].present
  /\ Call(MaxRemoteWrites)
  /\ remote' = [remote EXCEPT ![id] =
                  IF kind = "delete" THEN NoRow
                  ELSE IF kind = "insert" THEN [present |-> TRUE, approved |-> FALSE]
                  ELSE [@ EXCEPT !.approved = (kind = "approve")]]
  /\ \E m \in BOOLEAN :
       LET match == IF kind = "delete" THEN m /\ remote[id].approved ELSE kind = "approve"
       IN Publish(match) /\ last' = Step("remoteWrite", NULL, FALSE, match)
  /\ Withdraw(id)
  /\ toasts' = <<>>
  /\ UNCHANGED <<adminVars, pfVars, tsVars>>

\* (payload) => { fetchApprovedFeedback(); } of channel c: the callback runs
\* fetchApprovedFeedback up to its first await
onPostgresChanges(c) ==
  /\ c \in channels
  /\ events[c] > 0
  /\ events' = [events EXCEPT ![c] = @ - 1]
  /\ UNCHANGED withdrawn
  /\ tsLoading' = SetTs(tsLoading, TRUE)
  /\ tsFetches' = tsFetches (+) SetToBag({NewTsFetch("event")})
  /\ toasts' = <<>>
  /\ last' = Other
  /\ UNCHANGED <<remote, adminVars, pfVars, tsView, testimonials, channels>>
  /\ UNCHANGED calls

\* history name of the completion of run o: the initial fetch or a re-fetch
TsDone(o) == IF o.trigger = "event" THEN "tsRefetchDone" ELSE "tsFetchDone"

\* catch of fetchApprovedFeedback: toast, setTestimonials([]); finally setLoading(false)
TsFetchCatch(o) ==
  /\ toasts' = <<Toast("Error", "Failed to load testimonials")>>
  /\ testimonials' = SetTs(testimonials, <<>>)
  /\ tsLoading' = SetTs(tsLoading, FALSE)
  /\ tsFetches' = tsFetches (-) SetToBag({o})
  /\ last' = Step(TsDone(o), NULL, FALSE, FALSE)

\* mutation: a fetch appends its result to the list it finds
TsFetchInstallMerge(o, list) ==
  /\ toasts' = <<>>
  /\ testimonials' = SetTs(testimonials, testimonials \o list)
  /\ tsLoading' = SetTs(tsLoading, FALSE)
  /\ tsFetches' = tsFetches (-) SetToBag({o})
  /\ last' = Step(TsDone(o), NULL, FALSE, TRUE)

\* mutation: the early return of an empty result skips setLoading(false)
TsFetchInstallSpin(o, list) ==
  /\ toasts' = <<>>
  /\ testimonials' = SetTs(testimonials, list)
  /\ tsLoading' = IF list = <<>> THEN tsLoading ELSE SetTs(tsLoading, FALSE)
  /\ tsFetches' = tsFetches (-) SetToBag({o})
  /\ last' = Step(TsDone(o), NULL, FALSE, TRUE)

\* setTestimonials(list); finally setLoading(false)
TsFetchInstall(o, list) ==
  /\ toasts' = <<>>
  /\ testimonials' = SetTs(testimonials, list)
  /\ tsLoading' = SetTs(tsLoading, FALSE)
  /\ tsFetches' = tsFetches (-) SetToBag({o})
  /\ last' = Step(TsDone(o), NULL, FALSE, TRUE)

\* the primary query of fetchApprovedFeedback resolves
fetchApprovedFeedbackPrimary(o, ok) ==
  /\ BagIn(o, tsFetches)
  /\ o.phase = "primary"
  /\ LET data == SelectApproved(remote) IN
       IF ~ok THEN TsFetchCatch(o)
       ELSE IF Len(data) = 0 THEN TsFetchInstall(o, <<>>)
       ELSE IF UserIds(data) = {} THEN TsFetchInstall(o, MapTestimonials(data))
       ELSE /\ tsFetches' = (tsFetches (-) SetToBag({o}))
                             (+) SetToBag({[o EXCEPT !.phase = "profiles", !.data = data]})
            /\ toasts' = <<>>
            /\ last' = Other
            /\ UNCHANGED <<testimonials, tsLoading>>
  /\ UNCHANGED <<remote, adminVars, pfVars, tsView, channels, events, withdrawn>>
  /\ UNCHANGED calls

\* the profile lookup of fetchApprovedFeedback resolves with rows ("ok"), with an
\* error result ("error") or by raising ("throw")
fetchApprovedFeedbackProfiles(o, outcome) ==
  /\ BagIn(o, tsFetches)
  /\ o.phase = "profiles"
  /\ outcome \in {"ok", "error", "throw"}
  /\ LET data == o.data IN
       IF outcome = "throw" THEN TsFetchCatch(o)
       ELSE IF outcome = "error" THEN TsFetchInstall(o, MapTestimonials(data))
       ELSE TsFetchInstall(o, WithAuthors(data))
  /\ UNCHANGED <<remote, adminVars, pfVars, tsView, channels, events, withdrawn>>
  /\ UNCHANGED calls

NextTestimonial ==
  \/ TestimonialMount
  \/ TestimonialUnmount
  \/ \E id \in Ids, kind \in {"approve", "unapprove", "delete", "insert"} : RemoteWrite(id, kind)
  \/ \E c \in Effects : onPostgresChanges(c)
  \/ \E o \in BagToSet(tsFetches), ok \in BOOLEAN : fetchApprovedFeedbackPrimary(o, ok)
  \/ \E o \in BagToSet(tsFetches), outcome \in {"ok", "error", "throw"} :
       fetchApprovedFeedbackProfiles(o, outcome)

SpecTestimonial == Init /\ [][NextTestimonial]_vars

\* ------------------------------------------------------------- profile page
\* the comments the textarea can hold
Comments == {"", "nice"}

\* the stars handleRatingChange can set
Ratings == {1, 5}

\* useState({ rating: 5, comment: '' })
EmptyForm == [rating |-> 5, comment |-> ""]

\* mutation: the form is submitted without looking at the comment
CommentMissingNever(data) == FALSE

\* if (!feedbackData.comment)
CommentMissing(data) == data.comment = ""

\* mutation: the inserted row is approved on creation
InsertedRowApproved == [present |-> TRUE, approved |-> TRUE]

\* .insert({ ..., approved: false, created_at: new Date().toISOString() })
InsertedRow == [present |-> TRUE, approved |-> FALSE]

\* the id of the newest row of the table, 0 for an empty table
RECURSIVE Newest(_, _)
Newest(r, n) == IF n = 0 \/ r[n].present THEN n ELSE Newest(r, n - 1)

\* the id a row created now gets: newer than every row of the table
NewId(r) == Newest(r, Len(r)) + 1

\* onChange={handleFeedbackChange} of the comment textarea
handleFeedbackChange(comment) ==
  /\ comment \in Comments
  /\ feedbackData' = [feedbackData EXCEPT !.comment = comment]
  /\ toasts' = <<>>
  /\ last' = Other
  /\ UNCHANGED <<remote, adminVars, tsVars, events, withdrawn, calls>>
  /\ UNCHANGED <<user, pfLoading, submittedFeedback, inserts, saves, acVars, profiles>>

\* onClick={() => handleRatingChange(star)}
handleRatingChange(rating) ==
  /\ rating \in Ratings
  /\ feedbackData' = [feedbackData EXCEPT !.rating = rating]
  /\ toasts' = <<>>
  /\ last' = Other
  /\ UNCHANGED <<remote, adminVars, tsVars, events, withdrawn, calls>>
  /\ UNCHANGED <<user, pfLoading, submittedFeedback, inserts, saves, acVars, profiles>>

\* the session ends (handleLogout, expiry): useAuth().user becomes null
signOut ==
  /\ user # NoUser
  /\ user' = NoUser
  /\ toasts' = <<>>
  /\ last' = Other
  /\ UNCHANGED <<remote, adminVars, tsVars, events, withdrawn, calls>>
  /\ UNCHANGED <<pfLoading, feedbackData, submittedFeedback, inserts, saves, acVars,
                 profiles>>

\* the columns handleSubmit sends
UpdateFields == {"full_name", "phone", "address", "city", "state", "zip", "country"}

\* mutation: the update also sends the role of the form
ProfileUpdateWithRole(form) == [f \in UpdateFields \cup {"role"} |-> form[f]]

\* the object passed to .update(): the seven columns, taken from the form
ProfileUpdate(form) == [f \in UpdateFields |-> form[f]]

\* .update(data).eq('id', id) on the profiles table: the columns of data are
\* written to the row with that id; no row is written when none has the id
UpdateProfile(table, id, data) ==
  [u \in DOMAIN table |->
     IF u = id THEN [f \in Fields |-> IF f \in DOMAIN data THEN data[f] ELSE table[u][f]]
     ELSE table[u]]

\* onChange={handleChange} of the input called name
handleChange(name, value) ==
  /\ name \in UpdateFields
  /\ profileData' = [profileData EXCEPT ![name] = value]
  /\ toasts' = <<>>
  /\ last' = Other
  /\ UNCHANGED <<remote, adminVars, tsVars, events, withdrawn, calls, profiles>>
  /\ UNCHANGED <<user, pfLoading, feedbackData, submittedFeedback, inserts, saves>>
  /\ UNCHANGED <<profileFetch, orders, loadingOrders, orderFetches>>

\* the profile form is submitted (Save Changes: disabled={loading}): handleSubmit up
\* to its await, or to its end when there is no user
handleSubmit ==
  /\ ~pfLoading
  /\ IF user = NoUser
       THEN /\ toasts' = <<Toast("Not logged in",
                                 "You need to be logged in to update your profile")>>
            /\ pfLoading' = FALSE
            /\ UNCHANGED <<saves, calls>>
       ELSE /\ Call(MaxCalls)
            /\ pfLoading' = TRUE
            /\ saves' = Append(saves, [id |-> user, data |-> ProfileUpdate(profileData)])
            /\ toasts' = <<>>
  /\ last' = Other
  /\ UNCHANGED <<remote, adminVars, tsVars, events, withdrawn, profiles>>
  /\ UNCHANGED <<user, feedbackData, submittedFeedback, inserts, acVars>>

\* the profile update of handleSubmit resolves: the row is written, toast; finally
\* setLoading(false)
handleSubmitResolve(i, ok) ==
  /\ i \in 1..Len(saves)
  /\ profiles' = IF ok THEN UpdateProfile(profiles, saves[i].id, saves[i].data) ELSE profiles
  /\ saves' = RemoveAt(saves, i)
  /\ toasts' = IF ok
                THEN <<Toast("Profile updated", "Your profile has been updated successfully")>>
                ELSE <<Toast("Update failed", "An error occurred while updating your profile")>>
  /\ pfLoading' = FALSE
  /\ last' = Step("saveDone", NULL, FALSE, ok)
  /\ UNCHANGED <<remote, adminVars, tsVars, events, withdrawn, calls>>
  /\ UNCHANGED <<user, feedbackData, submittedFeedback, inserts, acVars>>

\* x || fallback of a column that is null or empty
OrElse(x, fallback) == IF x = "" THEN fallback ELSE x

\* setProfileData({...}) of fetchUserProfile: the row's columns with their
\* fallbacks, the email of the session
LoadedProfileData(row, u) ==
  [f \in Fields |-> IF f = "email" THEN u
                    ELSE IF f = "country" THEN OrElse(row[f], "United States")
                    ELSE IF f = "role" THEN OrElse(row[f], "user")
                    ELSE row[f]]

\* .eq('user_id', u).order('created_at', { ascending: false }): ids of u's rows
RECURSIVE OwnRows(_, _, _)
OwnRows(r, u, n) ==
  IF n = 0 THEN <<>>
  ELSE IF r[n].present /\ UserOf(n) = u THEN <<n>> \o OwnRows(r, u, n - 1)
  ELSE OwnRows(r, u, n - 1)

\* the profile query of fetchUserProfile resolves: setProfileData and the feedback
\* query is issued, or the catch logs (.single() fails when the user has no row)
fetchUserProfileProfile(ok) ==
  /\ profileFetch.phase = "profile"
  /\ LET u == profileFetch.user IN
       IF ok /\ u \in DOMAIN profiles
         THEN /\ profileData' = LoadedProfileData(profiles[u], u)
              /\ profileFetch' = [profileFetch EXCEPT !.phase = "feedback"]
         ELSE /\ profileFetch' = [profileFetch EXCEPT !.phase = "done"]
              /\ UNCHANGED profileData
  /\ toasts' = <<>>
  /\ last' = Other
  /\ UNCHANGED <<remote, adminVars, tsVars, events, withdrawn, calls, profiles>>
  /\ UNCHANGED <<user, pfLoading, feedbackData, submittedFeedback, inserts, saves>>
  /\ UNCHANGED <<orders, loadingOrders, orderFetches>>

\* the feedback query of fetchUserProfile resolves: setSubmittedFeedback, or the
\* catch logs
fetchUserProfileFeedback(ok) ==
  /\ profileFetch.phase = "feedback"
  /\ profileFetch' = [profileFetch EXCEPT !.phase = "done"]
  /\ submittedFeedback' = IF ok THEN OwnRows(remote, profileFetch.user, Len(remote))
                           ELSE submittedFeedback
  /\ toasts' = <<>>
  /\ last' = Other
  /\ UNCHANGED <<remote, adminVars, tsVars, events, withdrawn, calls, profiles>>
  /\ UNCHANGED <<user, pfLoading, feedbackData, inserts, saves>>
  /\ UNCHANGED <<profileData, orders, loadingOrders, orderFetches>>

\* Refresh Orders (disabled={loadingOrders}): fetchOrders up to its await, or its
\* return when there is no user
fetchOrders ==
  /\ ~loadingOrders
  /\ IF user = NoUser
       THEN UNCHANGED <<loadingOrders, orderFetches, calls>>
       ELSE /\ Call(MaxCalls)
            /\ loadingOrders' = TRUE
            /\ orderFetches' = Append(orderFetches, user)
  /\ toasts' = <<>>
  /\ last' = Other
  /\ UNCHANGED <<remote, adminVars, tsVars, events, withdrawn, profiles>>
  /\ UNCHANGED <<user, pfLoading, feedbackData, submittedFeedback, inserts, saves>>
  /\ UNCHANGED <<profileData, profileFetch, orders>>

\* mutation: the catch of fetchOrders leaves the flag set
fetchOrdersFinallyOnSuccess(ok) == IF ok THEN FALSE ELSE loadingOrders

\* finally { setLoadingOrders(false) } of fetchOrders
fetchOrdersFinally(ok) == FALSE

\* the orders query of fetchOrders resolves: setOrders, or the catch toasts;
\* finally setLoadingOrders(false)
fetchOrdersResolve(i, ok) ==
  /\ i \in 1..Len(orderFetches)
  /\ orderFetches' = RemoveAt(orderFetches, i)
  /\ orders' = IF ok THEN StoredOrders(orderFetches[i]) ELSE orders
  /\ toasts' = IF ok THEN <<>> ELSE <<Toast("Error", "Failed to load your orders")>>
  /\ loadingOrders' = fetchOrdersFinally(ok)
  /\ last' = Step("ordersDone", NULL, FALSE, ok)
  /\ UNCHANGED <<remote, adminVars, tsVars, events, withdrawn, calls, profiles>>
  /\ UNCHANGED <<user, pfLoading, feedbackData, submittedFeedback, inserts, saves>>
  /\ UNCHANGED <<profileData, profileFetch>>

\* the feedback form is submitted (Submit Feedback: disabled={loading}):
\* handleFeedbackSubmit up to its await, or to its return when the comment is
\* missing or there is no user; the table has room for the rows being inserted
handleFeedbackSubmit ==
  /\ ~pfLoading
  /\ IF CommentMissing(feedbackData)
       THEN /\ toasts' = <<Toast("Comment required", "Please provide your feedback")>>
            /\ last' = Step("commentRequired", NULL, FALSE, FALSE)
            /\ UNCHANGED <<pfLoading, inserts, calls>>
       ELSE IF user = NoUser
       THEN /\ toasts' = <<Toast("Not logged in",
                                 "You need to be logged in to submit feedback")>>
            /\ pfLoading' = FALSE
            /\ last' = Other
            /\ UNCHANGED <<inserts, calls>>
       ELSE /\ Call(MaxCalls)
            /\ NewId(remote) + Len(inserts) <= Len(remote)
            /\ pfLoading' = TRUE
            /\ inserts' = Append(inserts, [rating |-> feedbackData.rating,
                                            comment |-> feedbackData.comment,
                                            submittedFeedback |-> submittedFeedback])
            /\ toasts' = <<>>
            /\ last' = Other
  /\ UNCHANGED <<remote, adminVars, tsVars, events, withdrawn>>
  /\ UNCHANGED <<user, feedbackData, submittedFeedback, saves, acVars, profiles>>

\* the insert of handleFeedbackSubmit resolves: the row is created, the list the
\* handler was called with is extended and the form reset, or the catch toasts;
\* finally setLoading(false)
handleFeedbackSubmitResolve(i, ok) ==
  /\ i \in 1..Len(inserts)
  /\ LET id == NewId(remote) IN
       IF ok
         THEN /\ remote' = [remote EXCEPT ![id] = InsertedRow]
              /\ Publish(remote'[id].approved)
              /\ Withdraw(id)
              /\ toasts' = <<Toast("Feedback sent",
                     "Thank you for your feedback! It will be visible after admin approval.")>>
              /\ submittedFeedback' = <<id>> \o inserts[i].submittedFeedback
              /\ feedbackData' = EmptyForm
              /\ last' = Step("submitDone", id, remote'[id].approved, TRUE)
         ELSE /\ toasts' = <<Toast("Submission failed",
                                   "An error occurred while sending your feedback")>>
              /\ last' = Step("submitDone", NULL, FALSE, FALSE)
              /\ UNCHANGED <<remote, events, withdrawn, submittedFeedback, feedbackData>>
  /\ pfLoading' = FALSE
  /\ inserts' = RemoveAt(inserts, i)
  /\ UNCHANGED <<adminVars, tsVars, calls>>
  /\ UNCHANGED <<user, saves, acVars, profiles>>

\* a table of MaxId ids, any of them absent
InitProfile ==
  /\ remote \in [Ids -> Rows]
  /\ ViewsInit

\* a customer uses the profile page while the admin moderates the rows
NextProfile ==
  \/ \E comment \in Comments : handleFeedbackChange(comment)
  \/ \E rating \in Ratings : handleRatingChange(rating)
  \/ signOut
  \/ handleSubmit
  \/ \E i \in 1..MaxCalls, ok \in BOOLEAN : handleSubmitResolve(i, ok)
  \/ handleFeedbackSubmit
  \/ \E i \in 1..MaxCalls, ok \in BOOLEAN : handleFeedbackSubmitResolve(i, ok)
  \/ AdminMount
  \/ \E i \in 1..(MaxCalls + 1), ok \in BOOLEAN : fetchFeedbackPrimary(i, ok)
  \/ \E i \in 1..(MaxCalls + 1), ok \in BOOLEAN : fetchFeedbackLookup(i, ok)
  \/ \E k \in 1..MaxId : updateFeedbackStatus(k)
  \/ \E i \in 1..MaxCalls, ok \in BOOLEAN : updateFeedbackStatusResolve(i, ok)

SpecProfile == InitProfile /\ [][NextProfile]_vars

\* ------------------------------------------------------------- whole session
\* Every operation of the three views, in sessions whose remote calls all resolve.
\* The table starts with one row or with two, approved or not.
InitSession ==
  /\ remote \in [Ids -> Rows]
  /\ remote[1].present
  /\ \A id \in Ids : id > 2 => ~remote[id].present
  /\ ViewsInit

\* a pending remote call of some operation resolves, with success or with failure
Resolves ==
  \/ \E i \in 1..(MaxCalls + 1), ok \in BOOLEAN : fetchFeedbackPrimary(i, ok)
  \/ \E i \in 1..(MaxCalls + 1), ok \in BOOLEAN : fetchFeedbackLookup(i, ok)
  \/ \E i \in 1..MaxCalls, ok \in BOOLEAN : updateFeedbackStatusResolve(i, ok)
  \/ \E i \in 1..MaxCalls, ok \in BOOLEAN : deleteFeedbackResolve(i, ok)
  \/ \E o \in BagToSet(tsFetches), ok \in BOOLEAN : fetchApprovedFeedbackPrimary(o, ok)
  \/ \E o \in BagToSet(tsFetches), outcome \in {"ok", "error", "throw"} :
       fetchApprovedFeedbackProfiles(o, outcome)
  \/ \E i \in 1..(MaxCalls + 1), ok \in BOOLEAN : fetchOrdersResolve(i, ok)
  \/ \E i \in 1..MaxCalls, ok \in BOOLEAN : handleSubmitResolve(i, ok)
  \/ \E i \in 1..MaxCalls, ok \in BOOLEAN : handleFeedbackSubmitResolve(i, ok)

\* an operation of the admin view is started
AdminStarts ==
  \/ AdminMount
  \/ fetchFeedback
  \/ \E k \in 1..MaxId : updateFeedbackStatus(k)
  \/ \E k \in 1..MaxId : handleDeleteClick(k)
  \/ deleteFeedback

\* a fetch of the testimonial view is started, by the mount effect or by the event
\* of a write that another client makes while the view is on screen
TestimonialStarts ==
  \/ TestimonialMount
  \/ \E c \in Effects : onPostgresChanges(c)
  \/ /\ tsView = "active"
     /\ \E id \in Ids, kind \in {"approve", "unapprove", "delete", "insert"} :
          RemoteWrite(id, kind)

\* an operation of the profile page is started
ProfileStarts ==
  \/ fetchOrders
  \/ handleSubmit
  \/ \E comment \in Comments : handleFeedbackChange(comment)
  \/ handleFeedbackSubmit

\* the forms or the orders of the profile page have been used
ProfileUsed ==
  \/ feedbackData # EmptyForm
  \/ calls > 0 /\ adView = "init" /\ tsView = "init"

\* remote calls that are pending, over the three views
Pending ==
  Len(fetches) + Len(writes) + BagCardinality(tsFetches)
    + Len(orderFetches) + Len(saves) + Len(inserts)

\* The in-progress flags are local to a page, so a session is followed on the page
\* it uses: the operations of one page start, while fewer than MaxPending calls
\* are pending, and the pending calls resolve.
NextSession ==
  \/ /\ Pending < MaxPending
     /\ \/ tsView = "init" /\ ~ProfileUsed /\ AdminStarts
        \/ adView = "init" /\ ~ProfileUsed /\ TestimonialStarts
        \/ adView = "init" /\ tsView = "init" /\ ProfileStarts
  \/ Resolves

\* a call that is pending does not stay pending for ever
SpecSession == InitSession /\ [][NextSession]_vars /\ WF_vars(Resolves)

\* ------------------------------------------------------------- account
\* what is typed into an input of the profile form
Values == {"", "Bea"}

\* the inputs of the profile form that are typed into
Inputs == {"full_name", "country"}

\* the table starts with one row, of the user, that awaits moderation
InitAccount ==
  /\ remote = [id \in Ids |-> IF id = 1 THEN [present |-> TRUE, approved |-> FALSE] ELSE NoRow]
  /\ ViewsInit

\* a customer uses every control of the profile page
NextAccount ==
  \/ \E name \in Inputs, value \in Values : handleChange(name, value)
  \/ handleSubmit
  \/ \E i \in 1..MaxCalls, ok \in BOOLEAN : handleSubmitResolve(i, ok)
  \/ \E ok \in BOOLEAN : fetchUserProfileProfile(ok)
  \/ \E ok \in BOOLEAN : fetchUserProfileFeedback(ok)
  \/ fetchOrders
  \/ \E i \in 1..(MaxCalls + 1), ok \in BOOLEAN : fetchOrdersResolve(i, ok)
  \/ \E comment \in Comments : handleFeedbackChange(comment)
  \/ handleFeedbackSubmit
  \/ \E i \in 1..MaxCalls, ok \in BOOLEAN : handleFeedbackSubmitResolve(i, ok)
  \/ signOut

SpecAccount == InitAccount /\ [][NextAccount]_vars

\* ------------------------------------------------------------- fetch pipelines
\* a table of MaxRows ids, any of them absent
InitPipeline ==
  /\ remote \in [1..MaxRows -> Rows]
  /\ ViewsInit

\* both views mount and each runs its fetch-enrich pipeline once
NextPipeline ==
  \/ AdminMount
  \/ \E i \in 1..(MaxCalls + 1), ok \in BOOLEAN : fetchFeedbackPrimary(i, ok)
  \/ \E i \in 1..(MaxCalls + 1), ok \in BOOLEAN : fetchFeedbackLookup(i, ok)
  \/ TestimonialMount
  \/ \E o \in BagToSet(tsFetches), ok \in BOOLEAN : fetchApprovedFeedbackPrimary(o, ok)
  \/ \E o \in BagToSet(tsFetches), outcome \in {"ok", "error", "throw"} :
       fetchApprovedFeedbackProfiles(o, outcome)

SpecPipeline == InitPipeline /\ [][NextPipeline]_vars

\* ------------------------------------------------------------- limited query
\* a table of MaxApproved existing rows, more than the query's limit
InitLimit ==
  /\ remote \in [1..MaxApproved -> [present : {TRUE}, approved : BOOLEAN]]
  /\ ViewsInit

\* the testimonial view mounts and fetches while another client writes the table
NextLimit ==
  \/ TestimonialMount
  \/ \E id \in Ids, kind \in {"approve", "unapprove", "delete", "insert"} : RemoteWrite(id, kind)
  \/ \E o \in BagToSet(tsFetches), ok \in BOOLEAN : fetchApprovedFeedbackPrimary(o, ok)
  \/ \E o \in BagToSet(tsFetches), outcome \in {"ok", "error", "throw"} :
       fetchApprovedFeedbackProfiles(o, outcome)

SpecLimit == InitLimit /\ [][NextLimit]_vars

\* ------------------------------------------------------------- properties
\* the ids of a list, in list order
IdSeq(list) == [k \in 1..Len(list) |-> list[k].id]

\* C1: when the remote update of updateFeedbackStatus(id, approved) resolves, with
\* success or with failure, the local record id carries the requested flag and
\* every other record of the list is as it was.
C1_UpdateInstallsRequested ==
  [][\A i \in 1..Len(writes), ok \in BOOLEAN :
       (Len(writes') < Len(writes) /\ updateFeedbackStatusResolve(i, ok)) =>
         /\ Len(feedback') = Len(feedback)
         /\ \A k \in 1..Len(feedback) :
              IF feedback[k].id = writes[i].id
                THEN feedback'[k] = [feedback[k] EXCEPT !.approved = writes[i].approved]
                ELSE feedback'[k] = feedback[k]]_vars

\* C1: a failed update has completed, the list shows the requested flag next to
\* another record and the remote row still has the old flag
C1_Witness ==
  /\ last.act = "updateDone" /\ ~last.ok
  /\ Len(feedback) > 1
  /\ \E k \in 1..Len(feedback) : feedback[k].id = last.id /\ feedback[k].approved = last.approved
  /\ remote[last.id].approved # last.approved

\* C2: when the remote delete of deleteFeedback resolves, with success or with
\* failure, the record is gone from the local list and the other records keep
\* their order.
C2_DeleteRemoves ==
  [][\A i \in 1..Len(writes), ok \in BOOLEAN :
       (Len(writes') < Len(writes) /\ deleteFeedbackResolve(i, ok)) =>
         /\ writes[i].id \notin IdsOf(feedback')
         /\ feedback' = SelectSeq(feedback, LAMBDA item : item.id # writes[i].id)]_vars

\* C2: a failed delete has completed, the record is absent from a non-empty list
\* and still present in the remote table
C2_Witness ==
  /\ last.act = "deleteDone" /\ ~last.ok
  /\ last.id \notin IdsOf(feedback)
  /\ feedback # <<>>
  /\ remote[last.id].present

\* C3: while the remote write of a mutation is in flight the local list already
\* shows the intended change.
C3_LocalPhaseFirst ==
  \A i \in 1..Len(writes) :
    IF writes[i].kind = "delete"
      THEN writes[i].id \notin IdsOf(feedback)
      ELSE \A k \in 1..Len(feedback) :
             feedback[k].id = writes[i].id => feedback[k].approved = writes[i].approved

\* C4: starting a mutation emits nothing; its completion emits exactly one
\* notification, the "UI Updated" warning exactly when the remote write failed
\* and a success notification otherwise.
C4_WarningExactlyOnFailure ==
  [][/\ \A k \in 1..Len(feedback) :
          (Len(writes') > Len(writes) /\ updateFeedbackStatus(k)) => toasts' = <<>>
     /\ (Len(writes') > Len(writes) /\ deleteFeedback) => toasts' = <<>>
     /\ \A i \in 1..Len(writes), ok \in BOOLEAN :
          (/\ Len(writes') < Len(writes)
           /\ updateFeedbackStatusResolve(i, ok) \/ deleteFeedbackResolve(i, ok)) =>
            /\ Len(toasts') = 1
            /\ (toasts'[1].title = "UI Updated") <=> ~ok
            /\ ok => toasts'[1].title \in
                       {"Feedback Approved", "Feedback Unapproved", "Feedback Deleted"}]_vars

\* C4: a failed approve/unapprove has just emitted its single warning
C4_Witness ==
  /\ last.act = "updateDone" /\ ~last.ok
  /\ Len(toasts) = 1
  /\ toasts[1].title = "UI Updated"

\* C5: no two mutations on the same record are in flight at once.
C5_OneMutationPerRecord ==
  \A i, j \in 1..Len(writes) : i # j => writes[i].id # writes[j].id

\* C6: once the delete of a record has resolved the record stays out of the list
\* whatever an update on the same record does and whenever it resolves, and the
\* completion of either mutation adds, removes or changes no other record: the
\* end state is the list without the record, for every order and outcome.
C6_DeleteWinsInEveryOrder ==
  /\ [](\A id \in hist.deleted : id \notin IdsOf(feedback))
  /\ [][\A i \in 1..Len(writes), ok \in BOOLEAN :
          (/\ Len(writes') < Len(writes)
           /\ updateFeedbackStatusResolve(i, ok) \/ deleteFeedbackResolve(i, ok)) =>
            /\ IdsOf(feedback') =
                 IdsOf(feedback) \ (IF writes[i].kind = "delete" THEN {writes[i].id} ELSE {})
            /\ \A k \in 1..Len(feedback) :
                 feedback[k].id # writes[i].id =>
                   \E n \in 1..Len(feedback') : feedback'[n] = feedback[k]]_vars

\* C6: an update and a delete on one record were in flight together, both have
\* resolved and the record is gone while another record remains
C6_Witness ==
  \E id \in hist.overlapped \cap hist.deleted :
    /\ \A i \in 1..Len(writes) : writes[i].id # id
    /\ id \notin IdsOf(feedback)
    /\ feedback # <<>>

\* C7: the active testimonial view holds exactly one subscription.
C7_OneSubscription == tsView = "active" => Cardinality(channels) = 1

\* C8: after unmount no channel of the view is subscribed, no event waits for a
\* callback and no fetch is started.
C8_ReleasedOnUnmount ==
  /\ [](tsView = "unmounted" => channels = {} /\ \A c \in Effects : events[c] = 0)
  /\ [][tsView = "unmounted" => BagCardinality(tsFetches') <= BagCardinality(tsFetches)]_vars

\* C8: the view is unmounted, a row matching the filter has just been written
\* remotely and no fetch is outstanding
C8_Witness ==
  /\ tsView = "unmounted"
  /\ last.act = "remoteWrite" /\ last.ok
  /\ tsFetches = EmptyBag

\* C9: every delivered change event starts one run of fetchApprovedFeedback at
\* its primary query, and when a run started by an event completes successfully
\* in the active view the list is exactly the rows that run fetched.
C9_RefetchReplacesList ==
  [][/\ \A c \in Effects :
          onPostgresChanges(c) =>
            /\ BagCardinality(tsFetches') = BagCardinality(tsFetches) + 1
            /\ \E o \in BagToSet(tsFetches') :
                 /\ o.phase = "primary"
                 /\ CopiesIn(o, tsFetches') = CopiesIn(o, tsFetches) + 1
     /\ (tsView = "active" /\ last'.act = "tsRefetchDone" /\ last'.ok
           /\ BagCardinality(tsFetches') < BagCardinality(tsFetches)) =>
          \E o \in BagToSet(tsFetches) :
            /\ CopiesIn(o, tsFetches') = CopiesIn(o, tsFetches) - 1
            /\ IF o.phase = "primary"
                 THEN /\ IdsOf(testimonials') = {id \in Ids : remote[id].present /\ remote[id].approved}
                      /\ Len(testimonials') = Cardinality(IdsOf(testimonials'))
                 ELSE IdSeq(testimonials') = IdSeq(o.data)]_vars

\* C9: in the active view a re-fetch started by a change event has just
\* installed a non-empty list
C9_Witness ==
  /\ tsView = "active"
  /\ last.act = "tsRefetchDone" /\ last.ok
  /\ testimonials # <<>>

\* C10: after a fetch whose primary query failed the view's list is empty and
\* exactly one error notification was emitted.
C10_FailedFetchEmptiesList ==
  /\ (last.act = "fetchDone" /\ ~last.ok) => (feedback = <<>> /\ Len(toasts) = 1)
  /\ (tsView = "active" /\ last.act \in {"tsFetchDone", "tsRefetchDone"} /\ ~last.ok) =>
       (testimonials = <<>> /\ Len(toasts) = 1)

\* C11: a fetch whose primary query succeeds with zero rows installs the empty
\* list, ends loading, emits no notification and completes without a secondary
\* lookup, in the admin view and in the testimonial view.
C11_EmptyResultIsEmptyState ==
  [][/\ \A i \in 1..Len(fetches) :
          (fetchFeedbackPrimary(i, TRUE) /\ \A id \in DOMAIN remote : ~remote[id].present) =>
            /\ feedback' = <<>>
            /\ loading' = FALSE
            /\ toasts' = <<>>
            /\ Len(fetches') = Len(fetches) - 1
     /\ \A o \in BagToSet(tsFetches) :
          (/\ fetchApprovedFeedbackPrimary(o, TRUE)
           /\ \A id \in DOMAIN remote : ~(remote[id].present /\ remote[id].approved)) =>
            /\ testimonials' = <<>>
            /\ tsLoading' = FALSE
            /\ toasts' = <<>>
            /\ BagCardinality(tsFetches') = BagCardinality(tsFetches) - 1]_vars

\* C11: over an empty table both views have fetched successfully and show the
\* empty state
C11_Witness ==
  /\ \A id \in DOMAIN remote : ~remote[id].present
  /\ last.act \in {"fetchDone", "tsFetchDone"} /\ last.ok
  /\ adView = "active" /\ fetches = <<>> /\ feedback = <<>> /\ ~loading
  /\ tsView = "active" /\ tsFetches = EmptyBag /\ testimonials = <<>> /\ ~tsLoading
  /\ toasts = <<>>

\* C12: a run of the fetch pipeline issues at most one secondary lookup: when a
\* lookup resolves the run completes without issuing another one.
C12_OneLookupPerRun ==
  [][/\ \A i \in 1..Len(fetches), ok \in BOOLEAN :
          fetchFeedbackLookup(i, ok) => Len(fetches') = Len(fetches) - 1
     /\ \A o \in BagToSet(tsFetches), outcome \in {"ok", "error", "throw"} :
          fetchApprovedFeedbackProfiles(o, outcome) =>
            BagCardinality(tsFetches') = BagCardinality(tsFetches) - 1]_vars

\* the display name the profile of user u resolves to, or the fallback
Resolved(u, fallback) ==
  IF u # NoUser /\ u \in Profiles /\ FullName(u) # "" THEN FullName(u) ELSE fallback

\* C13: every record a fetch builds has a non-empty display name; a record whose
\* row has no identity reference, whose reference has no profile or whose profile
\* has no name carries the fallback, and a lookup that returned the profile
\* installs the resolved name.
C13_DisplayNameDefined ==
  /\ [](/\ \A k \in 1..Len(feedback) :
             feedback[k].name \in {"Anonymous User", Resolved(UserOf(feedback[k].id), "Anonymous User")}
        /\ \A i \in 1..Len(fetches) : \A k \in 1..Len(fetches[i].done) :
             fetches[i].done[k].name \in
               {"Anonymous User", Resolved(UserOf(fetches[i].done[k].id), "Anonymous User")}
        /\ \A k \in 1..Len(testimonials) :
             testimonials[k].author \in
               {"Anonymous Customer", Resolved(UserOf(testimonials[k].id), "Anonymous Customer")})
  /\ [][/\ \A i \in 1..Len(fetches) :
             fetchFeedbackLookup(i, TRUE) =>
               LET row == Head(fetches[i].data)
                   n == Len(fetches[i].done) + 1
                   list == IF Len(fetches') < Len(fetches) THEN feedback' ELSE fetches'[i].done
               IN /\ list[n].id = row.id
                  /\ list[n].name = Resolved(row.user_id, "Anonymous User")
        /\ \A o \in BagToSet(tsFetches) :
             fetchApprovedFeedbackProfiles(o, "ok") =>
               /\ Len(testimonials') = Len(o.data)
               /\ \A k \in 1..Len(o.data) :
                    /\ testimonials'[k].id = o.data[k].id
                    /\ testimonials'[k].author = Resolved(o.data[k].user_id, "Anonymous Customer")]_vars

\* C13: both views show a resolved name next to the fallback of a row whose user
\* has no profile and of a row whose profile has no name
C13_Witness ==
  /\ \E k \in 1..Len(feedback) : feedback[k].name = "Ann"
  /\ \E k \in 1..Len(feedback) : UserOf(feedback[k].id) = "u2" /\ feedback[k].name = "Anonymous User"
  /\ \E k \in 1..Len(feedback) : UserOf(feedback[k].id) = "u3" /\ feedback[k].name = "Anonymous User"
  /\ \E k \in 1..Len(testimonials) : testimonials[k].author = "Ann"
  /\ \E k \in 1..Len(testimonials) :
       UserOf(testimonials[k].id) = "u2" /\ testimonials[k].author = "Anonymous Customer"
  /\ \E k \in 1..Len(testimonials) :
       UserOf(testimonials[k].id) = "u3" /\ testimonials[k].author = "Anonymous Customer"

\* C14: a failed profile lookup, returned as an error or raised, emits no
\* notification and the run goes on with the fallback name: the admin run keeps
\* the row, the testimonial run installs one record per primary row.
C14_LookupFailureIsSilent ==
  [][/\ \A i \in 1..Len(fetches) :
          fetchFeedbackLookup(i, FALSE) =>
            LET row == Head(fetches[i].data)
                n == Len(fetches[i].done) + 1
                list == IF Len(fetches') < Len(fetches) THEN feedback' ELSE fetches'[i].done
            IN /\ toasts' = <<>>
               /\ list[n].id = row.id
               /\ list[n].name = "Anonymous User"
     /\ \A o \in BagToSet(tsFetches), outcome \in {"error", "throw"} :
          fetchApprovedFeedbackProfiles(o, outcome) =>
            /\ toasts' = <<>>
            /\ IdSeq(testimonials') = IdSeq(o.data)
            /\ \A k \in 1..Len(testimonials') : testimonials'[k].author = "Anonymous Customer"]_vars

\* ids is the sequence of the newest approved rows of table r, at most Limit of
\* them, newest first and without repetition
NewestApproved(ids, r) ==
  LET A == {id \in DOMAIN r : r[id].present /\ r[id].approved}
      S == {ids[k] : k \in 1..Len(ids)}
  IN /\ S \subseteq A
     /\ Len(ids) = (IF Cardinality(A) < Limit THEN Cardinality(A) ELSE Limit)
     /\ \A k \in 1..(Len(ids) - 1) : ids[k] > ids[k + 1]
     /\ \A a \in A \ S, b \in S : a < b

\* C15: the rows a successful primary query of fetchApprovedFeedback hands on
\* are the approved rows of the table at that time, the 10 newest when there are
\* more, newest first and without duplicates, and the list installed at the end
\* of the run holds exactly these rows in this order.
C15_NewestApprovedOnly ==
  [][/\ \A o \in BagToSet(tsFetches) :
          fetchApprovedFeedbackPrimary(o, TRUE) =>
            IF BagCardinality(tsFetches') < BagCardinality(tsFetches)
              THEN NewestApproved(IdSeq(testimonials'), remote)
              ELSE \E n \in BagToSet(tsFetches') :
                     /\ n.phase = "profiles"
                     /\ CopiesIn(n, tsFetches') = CopiesIn(n, tsFetches) + 1
                     /\ NewestApproved(IdSeq(n.data), remote)
     /\ \A o \in BagToSet(tsFetches), outcome \in {"ok", "error"} :
          fetchApprovedFeedbackProfiles(o, outcome) => IdSeq(testimonials') = IdSeq(o.data)]_vars

\* C15: over a table with more approved rows than the limit a fetch has
\* installed the 10 newest and left out the oldest
C15_Witness ==
  /\ Cardinality({id \in DOMAIN remote : remote[id].present /\ remote[id].approved}) > Limit
  /\ last.act = "tsFetchDone" /\ last.ok
  /\ Len(testimonials) = Limit
  /\ 1 \notin IdsOf(testimonials)

\* the step completes run i of fetchFeedback with success: its list is installed
Installs(i) ==
  /\ Len(fetches') < Len(fetches)
  /\ \/ fetchFeedbackPrimary(i, TRUE)
     \/ \E ok \in BOOLEAN : fetchFeedbackLookup(i, ok)

\* the list shows record id as approved
ShowsApproved(list, id) == \E k \in 1..Len(list) : list[k].id = id /\ list[k].approved

\* C16 as stated: after an approve of a record and a fetch issued right after its
\* completion, with no other mutation of the record in between, the installed
\* record is approved exactly when the remote update succeeded.
C16_RefetchShowsOutcome ==
  [][\A i \in 1..Len(fetches) :
       (Installs(i) /\ fetches[i].probe.id # NULL) =>
         (ShowsApproved(feedback', fetches[i].probe.id) <=> fetches[i].probe.ok)]_vars

\* C16 amended: under the same conditions the installed record is approved
\* exactly when the remote row was approved once the update had completed, and
\* the update leaves the remote row approved exactly when the row exists and the
\* update succeeded or the row was approved already.
C16_RefetchShowsRemote ==
  /\ [][\A i \in 1..Len(fetches) :
          (Installs(i) /\ fetches[i].probe.id # NULL) =>
            (ShowsApproved(feedback', fetches[i].probe.id) <=> fetches[i].probe.now)]_vars
  /\ [][\A i \in 1..Len(writes), ok \in BOOLEAN :
          (Len(writes') < Len(writes) /\ writes[i].approved /\ updateFeedbackStatusResolve(i, ok)) =>
            LET id == writes[i].id
            IN (remote'[id].present /\ remote'[id].approved) <=>
                 (remote[id].present /\ (ok \/ remote[id].approved))]_vars
  /\ [][(Len(fetches') > Len(fetches) /\ fetchFeedback) =>
          LET f == fetches'[Len(fetches')]
          IN (last.act = "updateDone" /\ last.approved /\ ~Overlaps("none", last.id)) =>
               /\ f.probe.id = last.id
               /\ f.probe.ok = last.ok
               /\ f.probe.now = (remote[last.id].present /\ remote[last.id].approved)]_vars

\* C16: a fetch issued right after a failed approve has installed the record as
\* approved, the remote row having been approved all along
C16_Witness ==
  /\ last.act = "fetchDone" /\ last.ok
  /\ last.id # NULL /\ ~last.approved
  /\ ShowsApproved(feedback, last.id)
  /\ remote[last.id].approved

\* C19: when the last of several fetches that were in flight together resolves,
\* the list is the result of that fetch: the rows it read, or the empty list when
\* it failed.
C19_LastResponseWins ==
  [][\A i \in 1..Len(fetches) :
       (/\ Len(fetches) = 1 /\ fetches[i].raced
        /\ Len(fetches') = 0
        /\ \E ok \in BOOLEAN : fetchFeedbackPrimary(i, ok) \/ fetchFeedbackLookup(i, ok)) =>
         IF last'.ok
           THEN IdSeq(feedback') =
                  IF fetches[i].phase = "primary" THEN IdSeq(SelectFeedback(remote))
                  ELSE IdSeq(fetches[i].done) \o IdSeq(fetches[i].data)
           ELSE feedback' = <<>>]_vars

\* C17: the row a resolved handleFeedbackSubmit creates is unapproved and no
\* other row changes, and a step that turns a row of the table approved is the
\* resolution of an updateFeedbackStatus(id, true).
C17_ApprovedOnlyByModeration ==
  [][/\ \A i \in 1..Len(inserts) :
          (Len(inserts') < Len(inserts) /\ handleFeedbackSubmitResolve(i, TRUE)) =>
            /\ ~remote[NewId(remote)].present
            /\ remote'[NewId(remote)].present
            /\ ~remote'[NewId(remote)].approved
            /\ \A id \in DOMAIN remote : id # NewId(remote) => remote'[id] = remote[id]
     /\ \A id \in DOMAIN remote :
          (remote'[id].approved /\ ~remote[id].approved) =>
            \E i \in 1..Len(writes) :
              /\ writes[i] = [kind |-> "update", id |-> id, approved |-> TRUE]
              /\ updateFeedbackStatusResolve(i, TRUE)]_vars

\* C17: a submitted feedback has just been created unapproved, next to a row the
\* admin has approved
C17_Witness ==
  /\ last.act = "submitDone" /\ last.ok
  /\ remote[last.id].present /\ ~remote[last.id].approved
  /\ submittedFeedback # <<>> /\ submittedFeedback[1] = last.id
  /\ \E k \in 1..Len(feedback) :
       feedback[k].id # last.id /\ feedback[k].approved /\ remote[feedback[k].id].approved

\* C18: handleFeedbackSubmit with an empty comment emits the "Comment required"
\* notification, issues no remote call and leaves the loading flag, the form and
\* the submitted-feedback list as they were.
C18_EmptyCommentRejected ==
  [][(feedbackData.comment = "" /\ handleFeedbackSubmit) =>
       /\ toasts' = <<Toast("Comment required", "Please provide your feedback")>>
       /\ UNCHANGED <<pfLoading, feedbackData, submittedFeedback>>
       /\ UNCHANGED <<inserts, saves, calls, remote>>]_vars

\* C18: the form was submitted with an empty comment by a signed-in user and
\* only the validation notification came of it
C18_Witness ==
  /\ last.act = "commentRequired"
  /\ user # NoUser
  /\ feedbackData.comment = ""
  /\ toasts = <<Toast("Comment required", "Please provide your feedback")>>
  /\ ~pfLoading /\ inserts = <<>>

\* C20: once the testimonial view is unmounted no step writes its list or its
\* loading flag or emits a notification.
C20_DiscardedAfterUnmount ==
  [][tsView = "unmounted" =>
       /\ testimonials' = testimonials
       /\ tsLoading' = tsLoading
       /\ toasts' = <<>>]_vars

\* C21: a view is in the loading state only while its initial fetch is in flight:
\* once the loading flag of an active view has been cleared (the view shows the
\* empty or the populated state), no later step, in particular no re-fetch started
\* by a change event or by the Refresh control, sets the flag again
C21_LoadingOnlyInitially ==
  [][ /\ (tsView = "active" /\ ~tsLoading) => ~tsLoading'
      /\ (adView = "active" /\ ~loading) => ~loading' ]_vars

\* no operation of a view is awaiting a remote call
NothingPending ==
  /\ fetches = <<>> /\ writes = <<>>
  /\ tsFetches = EmptyBag
  /\ orderFetches = <<>> /\ saves = <<>> /\ inserts = <<>>

\* the in-progress flags of the views that are on screen are cleared
FlagsCleared ==
  /\ adView = "active" => ~loading /\ updating = NULL
  /\ tsView = "active" => ~tsLoading
  /\ ~pfLoading /\ ~loadingOrders

\* C22: every started operation whose remote calls resolve, with success or with
\* failure, completes with its in-progress flag cleared: the step that ends an
\* operation clears the operation's flag, and a session whose calls resolve
\* reaches again and again a state with nothing pending and every flag cleared
C22_OperationsComplete ==
  /\ []<>(NothingPending /\ FlagsCleared)
  /\ [][ /\ Len(fetches') < Len(fetches) => ~loading'
         /\ Len(writes') < Len(writes) => updating' = NULL
         /\ (BagCardinality(tsFetches') < BagCardinality(tsFetches) /\ tsView = "active")
              => ~tsLoading'
         /\ Len(orderFetches') < Len(orderFetches) => ~loadingOrders'
         /\ (Len(saves') < Len(saves) \/ Len(inserts') < Len(inserts)) => ~pfLoading' ]_vars

\* a failed re-fetch has just ended the last pending operation of a session
C22_Witness ==
  /\ NothingPending /\ FlagsCleared
  /\ tsView = "active"
  /\ last.act = "tsRefetchDone" /\ ~last.ok

\* C23: in the admin view `updating` is non-null in every state in which an
\* approve/unapprove or a delete is still in flight, and it is reset to null only
\* by a step that leaves no mutation in flight (so Refresh and the delete controls
\* stay disabled while a mutation is outstanding)
C23_UpdatingWhileMutating ==
  /\ [](writes # <<>> => updating # NULL)
  /\ [][(updating # NULL /\ updating' = NULL) => writes' = <<>>]_vars

\* C24: in the admin view a fetchFeedback run and a mutation never overlap: no
\* mutation starts while a fetch is in flight and no fetch starts while a mutation
\* is in flight (so no fetch issued before a mutation's write installs its list
\* over the mutation's local effect)
C24_FetchAndMutationDisjoint ==
  /\ [](~(fetches # <<>> /\ writes # <<>>))
  /\ [][ /\ Len(writes') > Len(writes) => fetches = <<>>
         /\ Len(fetches') > Len(fetches) => writes = <<>> ]_vars

\* C25: testimonial view, while active: after a record that the list shows is
\* unapproved or deleted in the remote store, once every change event delivered
\* under the subscriptions' filter has been handled and every fetch has resolved,
\* the list no longer contains that record
C25_WithdrawnRecordRemoved ==
  (/\ tsView = "active"
   /\ tsFetches = EmptyBag
   /\ \A c \in Effects : events[c] = 0)
  => withdrawn \cap IdsOf(testimonials) = {}

\* C26: handleSubmit writes only full_name, phone, address, city, state, zip and
\* country, and only to the profiles row whose id is the signed-in user's id; no
\* step changes the role or the email of a profile; no update is issued when there
\* is no signed-in user; and no other operation of the profile page writes the
\* profiles table
C26_ProfileWriteFrame ==
  [][ /\ Len(saves') > Len(saves) =>
           /\ user # NoUser
           /\ saves'[Len(saves')].id = user
           /\ DOMAIN saves'[Len(saves')].data = UpdateFields
      /\ DOMAIN profiles' = DOMAIN profiles
      /\ \A u \in DOMAIN profiles : \A f \in {"role", "email"} :
           profiles'[u][f] = profiles[u][f]
      /\ profiles' # profiles =>
           \E i \in 1..Len(saves) :
             /\ saves' = RemoveAt(saves, i)
             /\ last'.act = "saveDone"
             /\ \A u \in DOMAIN profiles : \A f \in Fields :
                  profiles'[u][f] # profiles[u][f]
                    => u = saves[i].id /\ f \in UpdateFields ]_vars

\* a save of the edited form has been written to the administrator's row
C26_Witness ==
  /\ last.act = "saveDone" /\ last.ok
  /\ profiles["u1"]["full_name"] = "Bea"
  /\ profiles["u1"]["country"] = "United States"
  /\ profiles["u1"]["role"] = "admin"
  /\ profiles["u2"] = StoredProfiles["u2"]
====
